---- MODULE Spec2Model ----
(***************************************************************************)
(* Model of web-scraper-app.py: the Streamlit script main(), the scraper   *)
(* scrape_website() and the URL helper download_image().                    *)
(*                                                                         *)
(* Strings that are URLs are modelled by their parse: a record             *)
(*   [scheme, auth, netloc, path]                                          *)
(* where scheme is the text before the first ":" ("" when there is none),  *)
(* auth says whether "//" follows, netloc is the authority and path is the *)
(* path split at "/" (Python's path.split('/'), so "" is <<"">> and "/a"   *)
(* is <<"", "a">>).  Two different records are two different strings.      *)
(* Query, params and fragment are not modelled.                            *)
(***************************************************************************)
EXTENDS Integers, Sequences, FiniteSets, TLC

\* ---------------------------------------------------------------- bounds
MaxDocLen == 2

\* ------------------------------------------------------------- URL strings
Str(scheme, auth, netloc, path) ==
    [scheme |-> scheme, auth |-> auth, netloc |-> netloc, path |-> path]

EmptyStr == Str("", FALSE, "", <<"">>)

\* str.lower() on the scheme, as urlsplit applies it
Lower(s) == IF s = "HTTP" THEN "http" ELSE IF s = "HTTPS" THEN "https" ELSE s

\* urllib.parse.uses_relative / uses_netloc restricted to the schemes used here
uses_relative == {"", "http", "https", "ftp"}

uses_netloc == {"", "http", "https", "ftp"}

\* url.startswith(('http://', 'https://')), case-sensitive
StartsWithHttp(url) == url.auth /\ url.scheme \in {"http", "https"}

\* urlsplit raises ValueError("Invalid IPv6 URL") on an unbalanced bracket
BadNetloc(n) == n = "["

RECURSIVE DropEmpty(_)
\* filter(None, segs)
DropEmpty(segs) ==
    IF segs = <<>> THEN <<>>
    ELSE IF Head(segs) = "" THEN DropEmpty(Tail(segs))
         ELSE <<Head(segs)>> \o DropEmpty(Tail(segs))

\* segments[1:-1] = filter(None, segments[1:-1])
FilterMiddle(segs) ==
    IF Len(segs) <= 2 THEN segs
    ELSE <<segs[1]>> \o DropEmpty(SubSeq(segs, 2, Len(segs) - 1)) \o <<segs[Len(segs)]>>

RECURSIVE Resolve(_, _)
\* the loop over segments building resolved_path
Resolve(segs, acc) ==
    IF segs = <<>> THEN acc
    ELSE IF Head(segs) = ".."
         THEN Resolve(Tail(segs), IF acc = <<>> THEN acc ELSE SubSeq(acc, 1, Len(acc) - 1))
         ELSE IF Head(segs) = "." THEN Resolve(Tail(segs), acc)
              ELSE Resolve(Tail(segs), Append(acc, Head(segs)))

\* '/'.join(resolved_path) or '/', then urlunparse's leading "/" before a netloc
JoinPath(resolved) ==
    IF resolved = <<>> \/ resolved = <<"">> THEN <<"", "">>
    ELSE IF Head(resolved) # "" THEN <<"">> \o resolved
         ELSE resolved

\* urllib.parse.urljoin(base, url) as called by download_image
urljoin_raises(base, url) == url # EmptyStr /\ url.auth /\ BadNetloc(url.netloc)

urljoin(base, url) ==
    IF base = EmptyStr THEN url
    ELSE IF url = EmptyStr THEN base
    ELSE LET bscheme == Lower(base.scheme)
             scheme  == IF url.scheme = "" THEN bscheme ELSE Lower(url.scheme)
         IN  IF scheme # bscheme \/ scheme \notin uses_relative THEN url
             ELSE IF scheme \in uses_netloc /\ url.auth /\ url.netloc # ""
                  THEN Str(scheme, TRUE, url.netloc, url.path)
             ELSE IF url.path = <<"">>
                  THEN Str(scheme, base.auth, base.netloc, base.path)
             ELSE LET bparts   == base.path
                      baseDir  == IF bparts[Len(bparts)] # ""
                                  THEN SubSeq(bparts, 1, Len(bparts) - 1)
                                  ELSE bparts
                      segments == IF Len(url.path) >= 2 /\ url.path[1] = ""
                                  THEN url.path
                                  ELSE FilterMiddle(baseDir \o url.path)
                      last     == segments[Len(segments)]
                      resolved == Resolve(segments, <<>>) \o
                                  (IF last \in {".", ".."} THEN <<"">> ELSE <<>>)
                  IN  Str(scheme, base.auth, base.netloc, JoinPath(resolved))

\* download_image raises when its urljoin call raises
download_image_raises(url, base_url) ==
    ~StartsWithHttp(url) /\ urljoin_raises(base_url, url)

download_image_Concat(url, base_url) ==
    IF ~StartsWithHttp(url)
    THEN Str(base_url.scheme, base_url.auth, base_url.netloc, base_url.path \o url.path)
    ELSE url

\* download_image(url, base_url)
download_image(url, base_url) ==
    IF ~StartsWithHttp(url) THEN urljoin(base_url, url) ELSE url

\* --------------------------------------------------------------- documents
\* An attribute of an element: present or not, and its value.
Attr(has, val) == [has |-> has, val |-> val]

NoUrlAttr == Attr(FALSE, EmptyStr)

NoTextAttr == Attr(FALSE, "")

\* An element of the parsed tree; the tree is its elements in document order.
Elem(tag, href, src, alt, cls, text) ==
    [tag |-> tag, href |-> href, src |-> src, alt |-> alt, cls |-> cls, text |-> text]

\* <a href="/x">h</a>
AnchorRel == Elem("a", Attr(TRUE, Str("", FALSE, "", <<"", "x">>)), NoUrlAttr, NoTextAttr,
                  {}, <<"h">>)

\* <a href="" class="q t"> h </a>
AnchorEmptyHref == Elem("a", Attr(TRUE, EmptyStr), NoUrlAttr, NoTextAttr,
                        {"q", "t"}, <<" ", "h", " ">>)

\* <a class="q"> </a>
AnchorNoHref == Elem("a", NoUrlAttr, NoUrlAttr, NoTextAttr, {"q"}, <<" ">>)

\* <img src="pic.png" alt="Cat">
ImgCat == Elem("img", NoUrlAttr, Attr(TRUE, Str("", FALSE, "", <<"pic.png">>)),
               Attr(TRUE, "Cat"), {}, <<>>)

\* <img src="http://ex.com/y.png" alt="">
ImgEmptyAlt == Elem("img", NoUrlAttr, Attr(TRUE, Str("http", TRUE, "ex.com", <<"", "y.png">>)),
                    Attr(TRUE, ""), {}, <<>>)

\* <img src="../z.png">
ImgNoAlt == Elem("img", NoUrlAttr, Attr(TRUE, Str("", FALSE, "", <<"..", "z.png">>)),
                 NoTextAttr, {}, <<>>)

\* <img src="//[">  (urljoin raises ValueError on it)
ImgBadSrc == Elem("img", NoUrlAttr, Attr(TRUE, Str("", TRUE, "[", <<"">>)),
                  NoTextAttr, {}, <<>>)

\* <img alt="Cat">
ImgNoSrc == Elem("img", NoUrlAttr, NoUrlAttr, Attr(TRUE, "Cat"), {}, <<>>)

Elements == {AnchorRel, AnchorEmptyHref, AnchorNoHref,
             ImgCat, ImgEmptyAlt, ImgNoAlt, ImgBadSrc, ImgNoSrc}

Docs == UNION {[1..n -> Elements] : n \in 0..MaxDocLen}

\* Python truthiness of elem.get(name): present and not the empty string
Truthy(attr) == attr.has /\ attr.val # EmptyStr

RECURSIVE StripLeft(_)
StripLeft(t) == IF t # <<>> /\ Head(t) = " " THEN StripLeft(Tail(t)) ELSE t

RECURSIVE StripRight(_)
StripRight(t) ==
    IF t # <<>> /\ t[Len(t)] = " " THEN StripRight(SubSeq(t, 1, Len(t) - 1)) ELSE t

\* elem.get_text(strip=True) of an element holding one text node
get_text(elem) == StripRight(StripLeft(elem.text))

RECURSIVE LinksOf_KeepEmpty(_)
LinksOf_KeepEmpty(doc) ==
    IF doc = <<>> THEN <<>>
    ELSE (IF Head(doc).tag = "a" /\ Head(doc).href.has
          THEN <<Head(doc).href.val>> ELSE <<>>) \o LinksOf_KeepEmpty(Tail(doc))

RECURSIVE LinksOf(_)
\* [elem.get('href') for elem in soup.find_all('a') if elem.get('href')]
LinksOf(doc) ==
    IF doc = <<>> THEN <<>>
    ELSE (IF Head(doc).tag = "a" /\ Truthy(Head(doc).href)
          THEN <<Head(doc).href.val>> ELSE <<>>) \o LinksOf(Tail(doc))

RECURSIVE TextOf(_, _)
\* [elem.get_text(strip=True) for elem in soup.find_all(selector_value)]
TextOf(doc, tagname) ==
    IF doc = <<>> THEN <<>>
    ELSE (IF Head(doc).tag = tagname THEN <<get_text(Head(doc))>> ELSE <<>>)
         \o TextOf(Tail(doc), tagname)

RECURSIVE ClassTextOf(_, _)
\* [elem.get_text(strip=True) for elem in soup.find_all(class_=selector_value)]
ClassTextOf(doc, cls) ==
    IF doc = <<>> THEN <<>>
    ELSE (IF cls \in Head(doc).cls THEN <<get_text(Head(doc))>> ELSE <<>>)
         \o ClassTextOf(Tail(doc), cls)

NoAltText == "No alt text"

AltTextOf_EmptyIsMissing(img) ==
    IF img.alt.has /\ img.alt.val # "" THEN img.alt.val ELSE NoAltText

\* img.get('alt', 'No alt text')
AltTextOf(img) == IF img.alt.has THEN img.alt.val ELSE NoAltText

RECURSIVE ImagesOf(_, _)
\* the loop building image_data
ImagesOf(doc, url) ==
    IF doc = <<>> THEN <<>>
    ELSE (IF Head(doc).tag = "img" /\ Truthy(Head(doc).src)
          THEN <<[URL |-> download_image(Head(doc).src.val, url),
                  AltText |-> AltTextOf(Head(doc))]>>
          ELSE <<>>) \o ImagesOf(Tail(doc), url)

\* the Images branch raises when download_image raises on some image
ImagesRaises(doc, url) ==
    \E i \in 1..Len(doc) :
        /\ doc[i].tag = "img"
        /\ Truthy(doc[i].src)
        /\ download_image_raises(doc[i].src.val, url)

\* ---------------------------------------------------------- scrape_website
\* The keys of the selectors dict, in insertion order
KindOrder == <<"Links", "Text", "Custom Class", "Images">>

Kinds == {KindOrder[i] : i \in 1..Len(KindOrder)}

TextInputs == {"", "a"}

ClassInputs == {"", "q"}

Selectors(links, text, cls, images) ==
    [k \in Kinds |-> CASE k = "Links" -> links
                       [] k = "Text" -> text
                       [] k = "Custom Class" -> cls
                       [] k = "Images" -> images]

\* "if selector_value:" for a checkbox value or a text value
SelectorSet(selectors, k) ==
    IF k \in {"Links", "Images"} THEN selectors[k] ELSE selectors[k] # ""

\* the list one branch of the loop assigns to results[selector_type]
Extract(k, selectors, doc, url) ==
    CASE k = "Links" -> LinksOf(doc)
      [] k = "Text" -> TextOf(doc, selectors[k])
      [] k = "Custom Class" -> ClassTextOf(doc, selectors[k])
      [] k = "Images" -> ImagesOf(doc, url)

\* results after the loop has run over the kinds in ks
ResultsOver(ks, selectors, doc, url) ==
    [k \in {j \in ks : SelectorSet(selectors, j)} |-> Extract(k, selectors, doc, url)]

\* the first component of the returned pair: None, or the results dict
NoneResults == [isNone |-> TRUE, map |-> <<>>]

SomeResults(map) == [isNone |-> FALSE, map |-> map]

NoError == "None"

FetchError == "Error fetching the website"

OtherError == "An error occurred"

Return(results, error) == [results |-> results, error |-> error]

NoReturn == Return(NoneResults, NoError)

ExceptReturn_KeepPartial(partial, error) == Return(SomeResults(partial), error)

\* the two except clauses: the results built so far are dropped
ExceptReturn(partial, error) == Return(NoneResults, error)

raise_for_status_ClientOnly(status) == status \in 400..499

\* response.raise_for_status(): HTTPError for 4xx and 5xx only
raise_for_status(status) == status \in 400..599

\* scrape_website from the response on: status check, parse, extraction
scrape_website(url, selectors, status, doc) ==
    IF raise_for_status(status)
    THEN ExceptReturn(<<>>, FetchError)
    ELSE IF SelectorSet(selectors, "Images") /\ ImagesRaises(doc, url)
         THEN ExceptReturn(ResultsOver(Kinds \ {"Images"}, selectors, doc, url), OtherError)
         ELSE Return(SomeResults(ResultsOver(Kinds, selectors, doc, url)), NoError)

\* -------------------------------------------------------------------- main
\* What the user can type into the URL field:
\*   "", "http://site.com/dir/page.html", "https://site.com", "HTTP://Site.com/",
\*   "site.com/page", "http://site", "ftp://site.com/f"
UrlPage == Str("http", TRUE, "site.com", <<"", "dir", "page.html">>)

UrlBare == Str("https", TRUE, "site.com", <<"">>)

UrlUpper == Str("HTTP", TRUE, "Site.com", <<"", "">>)

UrlNoScheme == Str("", FALSE, "", <<"site.com", "page">>)

UrlDotless == Str("http", TRUE, "site", <<"">>)

UrlFtp == Str("ftp", TRUE, "site.com", <<"", "f">>)

UserUrls == {EmptyStr, UrlPage, UrlBare, UrlUpper, UrlNoScheme, UrlDotless, UrlFtp}

\* host names with a top-level domain, among the host names used here
IsDomain(netloc) == netloc \in {"site.com", "Site.com", "ex.com"}

\* validators.url(url): a known scheme, "//" and a domain name as host
ValidUrl(u) ==
    /\ Lower(u.scheme) \in {"http", "https", "ftp"}
    /\ u.auth
    /\ IsDomain(u.netloc)

ValidationFails_Skipped(u) == FALSE

\* "if url and not validators.url(url)": main reports the error and returns
ValidationFails(u) == u # EmptyStr /\ ~ValidUrl(u)

\* requests.get raises MissingSchema, InvalidSchema or InvalidURL (all
\* RequestException) before it opens a connection
RequestsRejects(u) ==
    \/ Lower(u.scheme) \notin {"http", "https"}
    \/ ~u.auth
    \/ u.netloc = ""

Statuses == {101, 200, 304, 404, 503}

Shown(kind, text) == [kind |-> kind, text |-> text]

\* the sections main renders for a non-empty results dict
Sections(map) ==
    {Shown("section", k) : k \in {j \in DOMAIN map : map[j] # <<>>}}

\* main's branches on the pair returned by scrape_website
\* (error: truthy string; results: truthy when the dict has a key)
Display(r) ==
    IF r.error # NoError THEN {Shown("error", r.error)}
    ELSE IF ~r.results.isNone /\ DOMAIN r.results.map # {}
         THEN Sections(r.results.map)
         ELSE {Shown("warning", "No data found with the specified selectors.")}

NoResponse == [status |-> 0, body |-> <<>>]

AfterFetchError_Retry(g) == [pc |-> "fetching", gets |-> g + 1]

\* a fetch error is caught and returned: no further request
AfterFetchError(g) == [pc |-> "returned", gets |-> g]

VARIABLES
    pc,          \* where the script is: "idle", "fetching" (inside requests.get), "returned"
    url,         \* value of the URL text input
    selectors,   \* values of the four selector widgets
    button,      \* st.button's value in the current run
    server,      \* how the remote end behaves for the request in flight
    gets,        \* HTTP GETs issued by the current invocation of scrape_website
    response,    \* status and body of the response received
    parsed,      \* whether BeautifulSoup was run on the body
    ret,         \* the pair returned by scrape_website
    shown,       \* errors, warnings and result sections on the page
    nx, nb, ny, nsteps   \* download_image exercised on its own: candidate, base, value, applications

vars == <<pc, url, selectors, button, server, gets, response, parsed, ret, shown,
          nx, nb, ny, nsteps>>

normVars == <<nx, nb, ny, nsteps>>

mainVars == <<pc, url, selectors, button, server, gets, response, parsed, ret, shown>>

MainInit ==
    /\ pc = "idle"
    /\ url = EmptyStr
    /\ selectors = Selectors(FALSE, "", "", FALSE)
    /\ button = FALSE
    /\ server = "none"
    /\ gets = 0
    /\ response = NoResponse
    /\ parsed = FALSE
    /\ ret = NoReturn
    /\ shown = {}

\* a run of main() without a button press: everything from the last run is gone
RunWithoutClick(u) ==
    /\ pc' = "idle"
    /\ button' = FALSE
    /\ server' = "none"
    /\ gets' = 0
    /\ response' = NoResponse
    /\ parsed' = FALSE
    /\ ret' = NoReturn
    /\ shown' = IF ValidationFails(u)
                THEN {Shown("error", "Please enter a valid URL")}
                ELSE {}

\* the user commits a new URL: main() reruns
EditUrl ==
    /\ pc = "idle"
    /\ \E u \in UserUrls \ {url} :
        /\ url' = u
        /\ RunWithoutClick(u)
    /\ UNCHANGED <<selectors, normVars>>

\* the user changes one selector widget (rendered only when main got past
\* the validation): main() reruns
EditSelector ==
    /\ pc = "idle"
    /\ ~ValidationFails(url)
    /\ \E k \in Kinds :
        \E v \in (CASE k = "Text" -> TextInputs
                    [] k = "Custom Class" -> ClassInputs
                    [] OTHER -> BOOLEAN) \ {selectors[k]} :
            selectors' = [selectors EXCEPT ![k] = v]
    /\ RunWithoutClick(url)
    /\ UNCHANGED <<url, normVars>>

\* the user presses "Start Scraping" (possibly committing a URL with the same
\* click): main() reruns with the button set, up to requests.get
ClickStart ==
    /\ pc = "idle"
    /\ ~ValidationFails(url)
    /\ \E u \in UserUrls, srv \in {"up", "down", "silent"} :
        /\ url' = u
        /\ button' = TRUE
        /\ response' = NoResponse
        /\ parsed' = FALSE
        /\ IF ValidationFails(u)
           THEN /\ shown' = {Shown("error", "Please enter a valid URL")}
                /\ pc' = "idle" /\ gets' = 0 /\ ret' = NoReturn /\ server' = "none"
           ELSE IF u = EmptyStr
           THEN /\ shown' = {Shown("warning", "Please enter a URL first.")}
                /\ pc' = "idle" /\ gets' = 0 /\ ret' = NoReturn /\ server' = "none"
           ELSE IF RequestsRejects(u)
           THEN /\ shown' = {}
                /\ pc' = "returned" /\ gets' = 0 /\ server' = "none"
                /\ ret' = ExceptReturn(<<>>, FetchError)
           ELSE /\ shown' = {}
                /\ pc' = "fetching" /\ gets' = 1 /\ server' = srv
                /\ ret' = NoReturn
    /\ UNCHANGED <<selectors, normVars>>

\* the server answers: requests.get returns and scrape_website runs to its return
Respond ==
    /\ pc = "fetching"
    /\ server = "up"
    /\ \E status \in Statuses, doc \in Docs :
        /\ response' = [status |-> status, body |-> doc]
        /\ parsed' = ~raise_for_status(status)
        /\ ret' = scrape_website(url, selectors, status, doc)
    /\ pc' = "returned"
    /\ UNCHANGED <<url, selectors, button, server, gets, shown, normVars>>

\* no connection (refused, DNS failure): requests.get raises ConnectionError
ConnectionFail ==
    /\ pc = "fetching"
    /\ server = "down"
    /\ pc' = AfterFetchError(gets).pc
    /\ gets' = AfterFetchError(gets).gets
    /\ ret' = IF pc' = "returned" THEN ExceptReturn(<<>>, FetchError) ELSE ret
    /\ UNCHANGED <<url, selectors, button, server, response, parsed, shown, normVars>>

\* back in main(): the branches after the call
ShowOutcome ==
    /\ pc = "returned"
    /\ shown' = Display(ret)
    /\ pc' = "idle"
    /\ UNCHANGED <<url, selectors, button, server, gets, response, parsed, ret, normVars>>

\* ------------------------------------------------ download_image on its own
CandSchemes == {"", "http", "HTTP", "https", "mailto"}

RelPaths == {<<"">>, <<"pic.png">>, <<"..", "z.png">>, <<"", "x">>, <<"..", "..">>, <<".">>}

AbsPaths == {<<"">>, <<"", "y.png">>}

Candidates ==
    {Str(s, FALSE, "", p) : s \in CandSchemes, p \in RelPaths}
    \cup {Str(s, TRUE, n, p) : s \in CandSchemes, n \in {"ex.com", "["}, p \in AbsPaths}

\* the page URLs that get as far as the extraction
Bases == {u \in UserUrls : u # EmptyStr /\ ValidUrl(u) /\ ~RequestsRejects(u)}

MaxApply == 2

NormInit ==
    /\ nx \in Candidates
    /\ nb \in Bases
    /\ ny = nx
    /\ nsteps = 0

NormIdle == nx = EmptyStr /\ nb = UrlPage /\ ny = EmptyStr /\ nsteps = 0

\* one more application of download_image to the value obtained so far
ApplyNormalize ==
    /\ nsteps < MaxApply
    /\ ~download_image_raises(ny, nb)
    /\ ny' = download_image(ny, nb)
    /\ nsteps' = nsteps + 1
    /\ UNCHANGED <<nx, nb, mainVars>>

\* ---------------------------------------------------------- specifications
Init == MainInit /\ NormIdle

Next == EditUrl \/ EditSelector \/ ClickStart \/ Respond \/ ConnectionFail \/ ShowOutcome

Spec == Init /\ [][Next]_vars

\* the script runs whenever it can; nothing makes a silent server answer
FairSpec == Spec /\ WF_vars(Next)

InitNorm == MainInit /\ NormInit

NextNorm == ApplyNormalize

SpecNorm == InitNorm /\ [][NextNorm]_vars

\* ------------------------------------------------------------------ claims
\* scrape_website has returned a results dict and no error
Succeeded == pc = "returned" /\ ret.error = NoError /\ ~ret.results.isNone

\* C1: a successful scrape_website returns a mapping in which no rule kind
\* has an empty record list (a rule that selects nothing is left out).
C1_NoEmptyRuleInResult ==
    Succeeded => \A k \in DOMAIN ret.results.map : ret.results.map[k] # <<>>

\* C2: an HTTP GET is in flight or was issued only for a URL that is not
\* empty and passed validators.url; an invalid URL never reaches requests.get.
C2_NoGetForInvalidUrl ==
    /\ (pc = "fetching" \/ gets > 0) => (url # EmptyStr /\ ValidUrl(url))
    /\ (url = EmptyStr \/ ~ValidUrl(url)) => (gets = 0 /\ response = NoResponse)

\* the button was pressed with an invalid URL in the field: error, no request
C2_Witness ==
    /\ button
    /\ url = UrlDotless
    /\ shown = {Shown("error", "Please enter a valid URL")}
    /\ gets = 0

\* C3: scrape_website returns either (results, None) or (None, message):
\* never both, never neither, also when a rule had already produced records
\* before the failure.
C3_ResultXorError ==
    pc = "returned" => (ret.results.isNone <=> ret.error # NoError)

\* the Images rule raised after the Links rule had produced records
C3_Witness ==
    /\ pc = "returned"
    /\ ret.error = OtherError
    /\ selectors["Links"]
    /\ LinksOf(response.body) # <<>>
    /\ ret.results.isNone

C5_FetchEventuallyReturns == (pc = "fetching") ~> (pc = "returned")

\* C6 as stated: the k-th Images record belongs to the k-th image with a
\* non-empty src, and its alt text is "No alt text" when the alt attribute is
\* missing or empty, the attribute's value otherwise.
C6_AltDefaultWhenMissingOrEmpty ==
    (Succeeded /\ "Images" \in DOMAIN ret.results.map) =>
        LET doc  == response.body
            recs == ret.results.map["Images"]
            idx  == {i \in 1..Len(doc) : doc[i].tag = "img" /\ doc[i].src.has
                                         /\ doc[i].src.val # EmptyStr}
        IN  /\ Len(recs) = Cardinality(idx)
            /\ \A i \in idx :
                 recs[Cardinality({j \in idx : j <= i})].AltText =
                    IF ~doc[i].alt.has \/ doc[i].alt.val = ""
                    THEN "No alt text" ELSE doc[i].alt.val

\* C6 amended: the k-th Images record belongs to the k-th image with a
\* non-empty src, and its alt text is "No alt text" when the alt attribute is
\* missing, the attribute's value (the empty string included) otherwise.
C6_AltDefaultWhenMissing ==
    (Succeeded /\ "Images" \in DOMAIN ret.results.map) =>
        LET doc  == response.body
            recs == ret.results.map["Images"]
            idx  == {i \in 1..Len(doc) : doc[i].tag = "img" /\ doc[i].src.has
                                         /\ doc[i].src.val # EmptyStr}
        IN  /\ Len(recs) = Cardinality(idx)
            /\ \A i \in idx :
                 recs[Cardinality({j \in idx : j <= i})].AltText =
                    IF ~doc[i].alt.has THEN "No alt text" ELSE doc[i].alt.val

\* an image without alt and one with alt="" were extracted
C6_Witness ==
    /\ Succeeded
    /\ response.body = <<ImgNoAlt, ImgEmptyAlt>>
    /\ "Images" \in DOMAIN ret.results.map
    /\ Len(ret.results.map["Images"]) = 2
    /\ ret.results.map["Images"][1].AltText = "No alt text"
    /\ ret.results.map["Images"][2].AltText = ""

C10_ExactlyOneFeedback ==
    (pc = "idle" /\ button) =>
        /\ Cardinality({s.kind : s \in shown}) = 1
        /\ (ret.error = NoError /\ ~ret.results.isNone
            /\ \A k \in DOMAIN ret.results.map : ret.results.map[k] = <<>>)
              => shown = {Shown("warning", "No data found with the specified selectors.")}

====
